---------------------------- MODULE Spec2Model ----------------------------
(***************************************************************************)
(* Defect RCA assistant: similarity-gated retrieval, the two-node workflow *)
(* (retrieve -> validate_or_generate_test_cases), the test-case quota      *)
(* manager with its CSV-backed table, and the self-evaluation controller   *)
(* get_solution_autonomously.                                              *)
(*                                                                         *)
(* The repository holds three variants of the program:                     *)
(*   "script"  src/unnamed/part_000 lines 1-403   (text output, e-mail)    *)
(*   "agent"   src/unnamed/part_000 lines 411-767 (text output, UI)        *)
(*   "tabular" src/TabularFormat.ipynb            (JSON output, UI)        *)
(* A behaviour of the model is a life of one of them: the variant is       *)
(* chosen in Init and never changes.                                       *)
(*                                                                         *)
(* Text is a sequence of tokens.  A token is a word, a blank (" "), a      *)
(* field label, or one of the marker strings the code searches for.        *)
(* `x in text` of the code is membership of the marker token; str.strip()  *)
(* removes blank tokens at both ends.                                      *)
(***************************************************************************)
EXTENDS Integers, Sequences, FiniteSets, TLC

VARIABLES
    variant,         \* which of the three programs runs
    docs,            \* the defect documents built at start-up
    csv_file,        \* ./content/test_cases.csv: [exists, rows]
    test_cases_df,   \* the global in-memory test-case table
    pc,              \* position of the current request
    input,           \* error_message given to get_solution
    context,         \* AgentState["context"]
    response,        \* AgentState["response"]
    rating,          \* auto_evaluate_solution(response), 0 = not rated yet
    result,          \* what get_solution returned
    outcome,         \* "none" | "returned" | "raised"
    llm_calls,       \* prompts sent to llm.invoke during this request
    iteration,       \* loop counter of get_solution_autonomously
    workflow_runs,   \* agent.invoke calls of this request
    alt_runs,        \* generate_alternative_solution calls of this request
    gate,            \* is_similar of this request: "none"|"pass"|"fail"|"raised"
    tcm,             \* branch the quota manager took: "none"|"reuse"|"additional"|"full"
    csv_test_cases,  \* local of validate_or_generate_test_cases
    new_cases,       \* cases parsed from the generator in this request
    llm_answer,      \* the generator's answer to the test-case prompt of this request
    selected_cases,  \* local of validate_or_generate_test_cases
    failure,         \* the call that raised in this request, or "none"
    persisted,       \* history: rows save_new_test_cases has appended so far
    query_emb,       \* is_similar: embedding of the query
    doc_emb,         \* is_similar: embedding of the document
    threshold,       \* is_similar: threshold, as [num, den]
    sim_ok,          \* is_similar: returned value, "none" before a call
    tpc,             \* per thread: position inside save_new_test_cases
    thread_cases,    \* per thread: the argument new_cases
    rows_add,        \* per thread: the local rows_to_add
    concat_read,     \* per thread: the table pd.concat read
    overlapped,      \* history: a call started while another was running
    ui               \* the UI: "none" | "error" (st.error shown) | "report"

vars == << variant, docs, csv_file, test_cases_df, pc, input, context, response,
           rating, result, outcome, llm_calls, iteration, workflow_runs, alt_runs,
           gate, tcm, csv_test_cases, new_cases, llm_answer, selected_cases, failure,
           persisted, query_emb, doc_emb, threshold, sim_ok,
           tpc, thread_cases, rows_add, concat_read, overlapped, ui >>

\* the arguments and the result of a direct call of the Similarity Gate
gate_vars == << query_emb, doc_emb, threshold, sim_ok >>

\* the threads that call save_new_test_cases at the same time
race_vars == << tpc, thread_cases, rows_add, concat_read, overlapped >>

\* the state of the request pipeline
main_vars == << variant, docs, csv_file, test_cases_df, pc, input, context,
               response, rating, result, outcome, llm_calls, iteration,
               workflow_runs, alt_runs, gate, tcm, csv_test_cases, new_cases, llm_answer,
               selected_cases, failure, persisted, ui >>

(***************************************************************************)
(* Bounds of the model.                                                    *)
(***************************************************************************)
\* A new request is accepted only while the table has at most MaxRows rows.
MaxRows == 4
\* Embedding coordinates given to the Similarity Gate directly are integers
\* of absolute value at most MaxCoord.
MaxCoord == 2
\* Number of threads that may be inside save_new_test_cases together.
MaxThreads == 2

(***************************************************************************)
(* Program constants.                                                      *)
(***************************************************************************)
REQUIRED_TEST_CASE_COUNT == 4
max_iterations == 3
\* threshold = 0.6 at the call site, as the fraction ThresholdNum/ThresholdDen
ThresholdNum == 3
ThresholdDen == 5

ErrMark == "**Error**:"
EndMark == "### END TEST CASE ###"
\* the split delimiter "\n### END TEST CASE ###\n"
Delim == "\n### END TEST CASE ###\n"
Blank == " "
\* pandas' missing value; str(NaN) is "nan"
NaN == << "<NaN>" >>

Variants == {"script", "agent", "tabular"}
JsonMode == variant = "tabular"

RequiredFields == << "Test_Scenario", "Test_Steps", "Pre_Requisite",
                     "Pass_Fail_Criteria", "Expected_Result" >>
\* the labels in the order parse_test_case's dict lists them
Labels == { "Test_Scenario:", "Test_Steps:", "Pre_Requisite:",
            "Expected_Result:", "Pass_Fail_Criteria:" }
\* the labels of the regex lookahead (Test_Scenario: is not among them)
LookaheadLabels == { "Test_Steps:", "Pre_Requisite:", "Expected_Result:",
                     "Pass_Fail_Criteria:" }

(***************************************************************************)
(* Sequence helpers.                                                       *)
(***************************************************************************)
Range(s) == { s[i] : i \in DOMAIN s }

RECURSIVE Flatten(_)
Flatten(ss) == IF ss = << >> THEN << >> ELSE Head(ss) \o Flatten(Tail(ss))

\* str.strip(): drop the blanks at both ends
Strip(t) ==
    LET nb == { i \in DOMAIN t : t[i] # Blank }
    IN IF nb = {} THEN << >>
       ELSE LET lo == CHOOSE i \in nb : \A j \in nb : i <= j
                hi == CHOOSE i \in nb : \A j \in nb : j <= i
            IN SubSeq(t, lo, hi)


(***************************************************************************)
(* Embeddings and the Similarity Gate.  A vector is [x, y, d], standing    *)
(* for (x/d, y/d).  The embedding model (all-MiniLM-L6-v2) returns         *)
(* unit-norm vectors; the texts below are mapped to points of the unit     *)
(* circle with rational coordinates.                                       *)
(***************************************************************************)
Vec(x, y, d) == [x |-> x, y |-> y, d |-> d]

get_embedding(text) ==
    CASE text = << "disk" >>         -> Vec(4, 3, 5)
      [] text = << "slow", "disk" >> -> Vec(5, 0, 5)
      [] text = << "boot" >>         -> Vec(0, 5, 5)
      [] text = << "fan" >>          -> Vec(12, -5, 13)
      [] text = << "net" >>          -> Vec(-4, 3, 5)
      [] OTHER                       -> Vec(0, -5, 5)

\* numerators of dot(a, b) and of norm(a)^2; the denominators are a.d*b.d and a.d^2
DotNum(a, b) == a.x * b.x + a.y * b.y
NormSqNum(a) == a.x * a.x + a.y * a.y

\* dot(a,b) / (norm(a) * norm(b)) >= num/den, for num/den > 0, in exact arithmetic
ClosedFormGE(a, b, num, den) ==
    /\ DotNum(a, b) >= 0
    /\ den * den * DotNum(a, b) * DotNum(a, b)
         >= num * num * NormSqNum(a) * NormSqNum(b)

\* the script's grouping: (dot(a,b) / norm(a)) * norm(b) >= num/den
LeftToRightGE(a, b, num, den) ==
    /\ DotNum(a, b) >= 0
    /\ den * den * DotNum(a, b) * DotNum(a, b) * NormSqNum(b)
         >= num * num * b.d * b.d * b.d * b.d * NormSqNum(a)

\* cosine_similarity(vec1, vec2) >= num/den, as the variant v computes it
cosine_similarity_GE(v, vec1, vec2, num, den) ==
    IF v = "script" THEN LeftToRightGE(vec1, vec2, num, den)
    ELSE ClosedFormGE(vec1, vec2, num, den)

\* a gate that ignores the threshold of its call site and uses its default 0.5
is_similar_DefaultThreshold(v, query, document, num, den) ==
    cosine_similarity_GE(v, get_embedding(query),
                         get_embedding(document.page_content), 1, 2)

is_similar(v, query, document, num, den) ==
    cosine_similarity_GE(v, get_embedding(query),
                         get_embedding(document.page_content), num, den)

(***************************************************************************)
(* The defect documents (defects.csv) and the retriever (FAISS, k = 1).    *)
(***************************************************************************)
\* module names, as texts like every other cell of the tables
Storage == << "Storage" >>
Network == << "Network" >>

\* the sessions of the UI: each runs get_solution in a thread of its own
Threads == 1..MaxThreads

\* no thread is inside save_new_test_cases
RaceIdle ==
    /\ tpc = [t \in Threads |-> "idle"]
    /\ thread_cases = [t \in Threads |-> << >>]
    /\ rows_add = [t \in Threads |-> << >>]
    /\ concat_read = [t \in Threads |-> << >>]
    /\ overlapped = FALSE

\* no direct call of the Similarity Gate has been made
GateIdle ==
    /\ query_emb = Vec(1, 0, 1)
    /\ doc_emb = Vec(1, 0, 1)
    /\ threshold = [num |-> ThresholdNum, den |-> ThresholdDen]
    /\ sim_ok = "none"

Doc(desc, sol, mod) == [page_content |-> desc, solution |-> sol, module |-> mod]

D1 == Doc(<< "disk" >>, << "replace", "cable" >>, Storage)
\* two defects of the same module
D2 == Doc(<< "net" >>, << "reset", "router" >>, Storage)

\* the defect tables the program may have been started with
DocSets == { {}, {D1, D2} }

\* the nearest documents of the store: for unit vectors the smallest L2
\* distance is the largest dot product; a tie is the index's choice
Nearest(store, query) ==
    { d \in store : \A e \in store :
        DotNum(get_embedding(query), get_embedding(d.page_content))
          >= DotNum(get_embedding(query), get_embedding(e.page_content)) }

\* what the user may type
Queries == { << "disk" >>, << Blank, "slow", "disk" >>, << "boot" >>,
             << "fan" >>, << Blank >> }

(***************************************************************************)
(* The test-case table.  A row (and a test-case dict) is a record          *)
(*   [Module, Test_Scenario, Test_Steps, Pre_Requisite,                    *)
(*    Pass_Fail_Criteria, Expected_Result]                                 *)
(* whose fields are texts or NaN.                                          *)
(***************************************************************************)
Columns == { "Module", "Test_Scenario", "Test_Steps", "Pre_Requisite",
             "Pass_Fail_Criteria", "Expected_Result" }

TC(mod, sc, st, pr, pf, ex) ==
    [Module |-> mod, Test_Scenario |-> sc, Test_Steps |-> st,
     Pre_Requisite |-> pr, Pass_Fail_Criteria |-> pf, Expected_Result |-> ex]

\* DataFrame.to_csv: a missing value is written as an empty cell
CsvCell(v) == IF v = NaN THEN << >> ELSE v
CsvRow(r) == [c \in DOMAIN r |-> CsvCell(r[c])]
to_csv(df) == [exists |-> TRUE, rows |-> [i \in DOMAIN df |-> CsvRow(df[i])]]

\* pandas.read_csv: an empty cell is read as a missing value
ReadCell(c) == IF c = << >> THEN NaN ELSE c
ReadRow(r) == [c \in DOMAIN r |-> ReadCell(r[c])]
read_csv(file) == [i \in DOMAIN file.rows |-> ReadRow(file.rows[i])]

\* the table after start-up: the script reads ./conten/test_cases.csv, a path
\* the program never writes, and falls back to the empty table; the other
\* variants read ./content/test_cases.csv and fall back when it is missing
StartupTable(v, file) ==
    IF v = "script" THEN << >>
    ELSE IF file.exists THEN read_csv(file) ELSE << >>

\* `series == value` of pandas: a missing value equals nothing
PandasEq(a, b) == a # NaN /\ b # NaN /\ a = b

\* str(value).strip() is non-empty; str(NaN) is "nan"
Truthy(v) == IF v = NaN THEN TRUE ELSE Strip(v) # << >>

get_csv_test_cases(df, module) ==
    IF df = << >> THEN << >>
    ELSE SelectSeq(df, LAMBDA row :
            /\ PandasEq(row.Module, module)
            /\ \A i \in DOMAIN RequiredFields : Truthy(row[RequiredFields[i]]))

\* case["<column>"] raises KeyError for a dict that lacks the column
HasAllKeys(case) == Columns \subseteq DOMAIN case

IsDuplicate(df, case) ==
    \E i \in DOMAIN df : \A c \in Columns : PandasEq(df[i][c], case[c])

\* a loop without the duplicate test: every case is appended
rows_to_add_Unchecked(df, cases) == cases

\* the loop of save_new_test_cases: every case is compared with the table as
\* it was when the call began
rows_to_add(df, cases) == SelectSeq(cases, LAMBDA case : ~IsDuplicate(df, case))

\* save_new_test_cases raises (before it changes anything) when a case dict
\* lacks a column
SaveRaises(cases) == \E i \in DOMAIN cases : ~HasAllKeys(cases[i])

\* the table and the file after save_new_test_cases(cases), as << df, file >>
save_new_test_cases(df, file, cases) ==
    LET add == rows_to_add(df, cases)
    IN IF add = << >> THEN << df, file >>
       ELSE << df \o add, to_csv(df \o add) >>

(***************************************************************************)
(* Parsing the generator's text (text variants).                           *)
(***************************************************************************)
\* response.strip(): the newline that ends a final delimiter is stripped, which
\* leaves the marker text without its closing newline (no longer a delimiter)
StripResponse(t) ==
    LET s == Strip(t)
        a == IF s # << >> /\ s[Len(s)] = Delim
             THEN SubSeq(s, 1, Len(s) - 1) \o << Blank, EndMark >> ELSE s
    IN IF a # << >> /\ a[1] = Delim
       THEN << EndMark, Blank >> \o SubSeq(a, 2, Len(a)) ELSE a

RECURSIVE SplitOnDelim(_)
\* re.split(delimiter, text)
SplitOnDelim(t) ==
    LET ds == { i \in DOMAIN t : t[i] = Delim }
    IN IF ds = {} THEN << t >>
       ELSE LET k == CHOOSE i \in ds : \A j \in ds : i <= j
            IN << SubSeq(t, 1, k - 1) >> \o SplitOnDelim(SubSeq(t, k + 1, Len(t)))

\* [tc.strip() for tc in re.split(delimiter, response) if tc.strip()]
RawCases(t) ==
    LET blocks == SplitOnDelim(t)
        stripped == [i \in DOMAIN blocks |-> Strip(blocks[i])]
    IN SelectSeq(stripped, LAMBDA b : b # << >>)

\* re.search(field + ":\s*(.*?)\s*(?=(<lookahead labels>|$))", text, DOTALL):
\* the text after the first occurrence of the label, up to the next lookahead
\* label or the end, stripped; "" when the label does not occur
FieldOf(text, label) ==
    LET at == { i \in DOMAIN text : text[i] = label }
    IN IF at = {} THEN << >>
       ELSE LET k == CHOOSE i \in at : \A j \in at : i <= j
                stops == { j \in DOMAIN text : j > k /\ text[j] \in LookaheadLabels }
                e == IF stops = {} THEN Len(text)
                     ELSE (CHOOSE i \in stops : \A j \in stops : i <= j) - 1
            IN Strip(SubSeq(text, k + 1, e))

parse_test_case(tc_text) ==
    [Test_Scenario      |-> FieldOf(tc_text, "Test_Scenario:"),
     Test_Steps         |-> FieldOf(tc_text, "Test_Steps:"),
     Pre_Requisite      |-> FieldOf(tc_text, "Pre_Requisite:"),
     Expected_Result    |-> FieldOf(tc_text, "Expected_Result:"),
     Pass_Fail_Criteria |-> FieldOf(tc_text, "Pass_Fail_Criteria:")]

\* the text variants' loop over the raw cases: keep those whose parsed
\* Test_Scenario is non-empty, under the matched module
ParsedCases(module, generated) ==
    LET raw == RawCases(StripResponse(generated))
        parsed == [i \in DOMAIN raw |-> parse_test_case(raw[i])]
        kept == SelectSeq(parsed, LAMBDA p : p.Test_Scenario # << >>)
    IN [i \in DOMAIN kept |->
          TC(module, kept[i].Test_Scenario, kept[i].Test_Steps,
             kept[i].Pre_Requisite, kept[i].Pass_Fail_Criteria,
             kept[i].Expected_Result)]

(***************************************************************************)
(* What the external services may answer when they answer; whether a call  *)
(* raises instead is a separate input of each step.                        *)
(***************************************************************************)
\* llm content for the explanation prompt
Explanations == { << "because", Blank >>, << "because", ErrMark >> }

\* llm content for the alternative-solution prompt
AltSolutions == { << "reinstall" >> }

TextCase(sc, st, pr, ex, pf) ==
    << "Test_Scenario:" >> \o sc \o << Blank, "Test_Steps:" >> \o st
      \o << Blank, "Pre_Requisite:" >> \o pr \o << Blank, "Expected_Result:" >> \o ex
      \o << Blank, "Pass_Fail_Criteria:" >> \o pf

CaseA == TextCase(<< "scA" >>, << "steps" >>, << "pre" >>, << "exp" >>, << "crit" >>)
\* a case without steps
CaseB == TextCase(<< "scB" >>, << >>, << "pre" >>, << "exp" >>, << "crit" >>)
\* a case whose scenario is empty
CaseC == TextCase(<< >>, << "steps" >>, << "pre" >>, << "exp" >>, << "crit" >>)

\* llm content for a test-case prompt, text variants
TextResponses ==
    { CaseA \o << Delim >>,              \* one case, closed by the delimiter
      CaseA \o << Delim >> \o CaseA,     \* the same case twice
      CaseB \o << Delim >> \o CaseC,     \* no steps; no scenario
      << "sorry" >> }                    \* nothing that parses

\* llm content for a test-case prompt, JSON variant, by what json.loads makes
\* of it: kind "invalid" (json.loads raises), "array" (a list of dicts) or
\* "object" (a non-empty dict)
Json(kind, items) == [kind |-> kind, items |-> items]

\* a dict with the five requested keys and no "Module"
JNoModule == [Test_Scenario |-> << "scA" >>, Test_Steps |-> << "steps" >>,
              Pre_Requisite |-> << "pre" >>, Pass_Fail_Criteria |-> << "crit" >>,
              Expected_Result |-> << "exp" >>]
\* dicts that repeat the "Module" key of the existing cases shown in the prompt
JFull(mod) == TC(mod, << "scA" >>, << "steps" >>, << "pre" >>, << "crit" >>, << "exp" >>)
JNoScenario(mod) == TC(mod, << >>, << "steps" >>, << "pre" >>, << "crit" >>, << "exp" >>)

JsonResponses ==
    { Json("invalid", << >>),
      Json("object", << >>),
      Json("array", << >>),
      Json("array", << JNoModule >>),
      Json("array", << JFull(Storage), JFull(Storage) >>),
      Json("array", << JNoScenario(Storage) >>) }

GenResponses(v) == IF v = "tabular" THEN JsonResponses ELSE TextResponses

\* no test-case prompt has been answered
NoAnswer(v) == IF v = "tabular" THEN Json("none", << >>) ELSE << >>

\* llm content for the alternative path's test-case prompt
AltTestResponses(v) ==
    IF v = "tabular"
    THEN { Json("invalid", << >>), Json("array", << JNoModule, JNoModule >>),
           Json("array", << JNoModule, JNoModule, JNoModule, JNoModule >>) }
    ELSE { CaseA \o << Delim >> \o CaseA \o << Delim >>, << "sorry" >>,
           CaseA \o << Delim >> \o CaseB \o << Delim >> \o CaseA \o << Delim >>
             \o CaseB \o << Delim >> }

\* the table files a run may be started with (left by earlier runs or by hand)
StoredRow(mod, k) == TC(mod, << "stored", k >>, << "steps" >>, << "pre" >>,
                        << "crit" >>, << "exp" >>)
NoFile == [exists |-> FALSE, rows |-> << >>]
FileOf(rows) == [exists |-> TRUE, rows |-> rows]
InitialFiles ==
    { NoFile,
      FileOf(<< StoredRow(Storage, "1"), StoredRow(Storage, "2"),
                StoredRow(Storage, "3"), StoredRow(Storage, "4") >>),
      FileOf(<< StoredRow(Storage, "1"), StoredRow(Network, "1"),
                StoredRow(Network, "2") >>) }

(***************************************************************************)
(* Responses.  The text variants return a string (field `text`); the JSON  *)
(* variant returns a dict (`keys` and the fields they name).               *)
(***************************************************************************)
NoCases == Json("array", << >>)

Resp(keys, err, sol, expl, tcs, alt, text) ==
    [keys |-> keys, Error |-> err, Solution |-> sol, Explanation |-> expl,
     TestCases |-> tcs, AlternativeSolution |-> alt, text |-> text]

NoResponse == Resp({}, << >>, << >>, << >>, NoCases, << >>, << >>)

NotFoundText == << ErrMark, "The defect could not be found in the database." >>
ExceptionText == << "Error processing request:", "exception" >>

NotFound(v) ==
    IF v = "tabular"
    THEN Resp({"Error"}, NotFoundText, << >>, << >>, NoCases, << >>, << >>)
    ELSE Resp({}, << >>, << >>, << >>, NoCases, << >>, NotFoundText)

\* the response of the catch-all `except Exception`
ExceptionResponse(v) ==
    IF v = "tabular"
    THEN Resp({"Error"}, ExceptionText, << >>, << >>, NoCases, << >>, << >>)
    ELSE Resp({}, << >>, << >>, << >>, NoCases, << >>, ExceptionText)

\* f"{value}" of a table cell
StrOf(v) == IF v = NaN THEN << "nan" >> ELSE v

format_tc(tc) ==
    << "Test_Scenario:" >> \o StrOf(tc.Test_Scenario)
      \o << "Test_Steps:" >> \o StrOf(tc.Test_Steps)
      \o << "Pre_Requisite:" >> \o StrOf(tc.Pre_Requisite)
      \o << "Expected_Result:" >> \o StrOf(tc.Expected_Result)
      \o << "Pass_Fail_Criteria:" >> \o StrOf(tc.Pass_Fail_Criteria)

\* response_template.format(...) of the text variants
ResponseText(error, solution, explanation, cases) ==
    << "**Error:**" >> \o error \o << "**Solution:**" >> \o solution
      \o << "**Explanation:**" >> \o explanation \o << "**Test Cases:**" >>
      \o Flatten([i \in DOMAIN cases |-> format_tc(cases[i])])

Matched(v, error, solution, explanation, cases) ==
    IF v = "tabular"
    THEN Resp({"Error", "Solution", "Explanation", "TestCases"},
              error, solution, explanation, Json("array", cases), << >>, << >>)
    ELSE Resp({}, << >>, << >>, << >>, NoCases, << >>,
              ResponseText(error, solution, explanation, cases))

\* `marker in response` for the two marker strings; the delimiter contains
\* the end marker
HasEndMark(text) == EndMark \in Range(text) \/ Delim \in Range(text)
HasErrMark(text) == ErrMark \in Range(text)

\* a scorer without the branch for the error marker: under it the not-found
\* response would be rated 3 and returned as it is
auto_evaluate_solution_NoErrorBranch(v, resp) ==
    IF v = "tabular"
    THEN IF /\ "TestCases" \in resp.keys
            /\ resp.TestCases.kind = "array"
            /\ Len(resp.TestCases.items) > 0
         THEN 5 ELSE 3
    ELSE IF HasEndMark(resp.text) THEN 5
         ELSE 3

auto_evaluate_solution(v, resp) ==
    IF v = "tabular"
    THEN IF /\ "TestCases" \in resp.keys
            /\ resp.TestCases.kind = "array"
            /\ Len(resp.TestCases.items) > 0
         THEN 5 ELSE 1
    ELSE IF HasEndMark(resp.text) THEN 5
         ELSE IF HasErrMark(resp.text) THEN 1
         ELSE 3

(***************************************************************************)
(* The workflow node validate_or_generate_test_cases.                      *)
(***************************************************************************)
Prompt(kind, num) == [kind |-> kind, num |-> num]

\* a quota test with > in place of >=: under it a module with exactly
\* REQUIRED_TEST_CASE_COUNT stored cases would ask for more
QuotaBranch_Strict(csv) ==
    IF csv # << >> /\ Len(csv) > REQUIRED_TEST_CASE_COUNT THEN "reuse"
    ELSE IF csv # << >> /\ Len(csv) <= REQUIRED_TEST_CASE_COUNT THEN "additional"
    ELSE "full"

\* which branch of the quota test the node takes for the valid stored cases
QuotaBranch(csv) ==
    IF csv # << >> /\ Len(csv) >= REQUIRED_TEST_CASE_COUNT THEN "reuse"
    ELSE IF csv # << >> /\ Len(csv) < REQUIRED_TEST_CASE_COUNT THEN "additional"
    ELSE "full"

\* the cases the node takes from the generator's answer: the text variants
\* split and parse it and keep the cases with a scenario; the JSON variant
\* takes json.loads(answer) as it is, and [] when json.loads raises
GeneratedCases(v, module, gen) ==
    IF v = "tabular"
    THEN IF gen.kind = "array" THEN gen.items ELSE << >>
    ELSE ParsedCases(module, gen)

\* json.loads gave a dict: list + dict, or case["Module"] on a key, raises TypeError
NotAList(v, gen) == v = "tabular" /\ gen.kind = "object"

Out(resp, df, file, calls, g, branch, csv, new, sel, fail) ==
    [response |-> resp, df |-> df, file |-> file, calls |-> calls, gate |-> g,
     tcm |-> branch, csv_test_cases |-> csv, new_cases |-> new,
     selected_cases |-> sel, failure |-> fail]

\* The node run on state (state_input, ctx) with table df and file `file`.
\* ext gives what the outside does in this run: embed_ok (the embedding calls
\* of is_similar return), expl_ok and expl (the explanation call), gen_ok and
\* gen (the test-case call).
validate_or_generate_test_cases(v, state_input, ctx, df, file, ext) ==
    IF ctx = << >>
    THEN Out(NotFound(v), df, file, << >>, "none", "none", << >>, << >>, << >>,
             "none")
    ELSE IF ~ext.embed_ok
    THEN Out(ExceptionResponse(v), df, file, << >>, "raised", "none", << >>, << >>,
             << >>, "embedding")
    ELSE IF ~is_similar(v, state_input, ctx[1], ThresholdNum, ThresholdDen)
    THEN Out(NotFound(v), df, file, << >>, "fail", "none", << >>, << >>, << >>,
             "none")
    ELSE
      LET solution == ctx[1].solution
          module == ctx[1].module
          call1 == << Prompt("explanation", 0) >>
      IN IF ~ext.expl_ok
         THEN Out(ExceptionResponse(v), df, file, call1, "pass", "none",
                  << >>, << >>, << >>, "explanation")
         ELSE
           LET explanation == Strip(ext.expl)
               csv == get_csv_test_cases(df, module)
               branch == QuotaBranch(csv)
           IN IF branch = "reuse"
              THEN Out(Matched(v, state_input, solution, explanation, csv),
                       df, file, call1, "pass", branch, csv, << >>, csv, "none")
              ELSE
                LET calls == call1 \o
                      << IF branch = "additional"
                         THEN Prompt("additional", REQUIRED_TEST_CASE_COUNT - Len(csv))
                         ELSE Prompt("full", 0) >>
                    failed(why) == Out(ExceptionResponse(v), df, file, calls, "pass",
                                       branch, csv, << >>, << >>, why)
                IN IF ~ext.gen_ok THEN failed("testcases")
                   ELSE IF NotAList(v, ext.gen) THEN failed("internal")
                   ELSE
                     LET new == GeneratedCases(v, module, ext.gen)
                         selected == csv \o new
                     IN IF new # << >> /\ SaveRaises(new) THEN failed("internal")
                        ELSE
                          LET saved == IF new = << >> THEN << df, file >>
                                       ELSE save_new_test_cases(df, file, new)
                          IN Out(Matched(v, state_input, solution, explanation, selected),
                                 saved[1], saved[2], calls, "pass", branch,
                                 csv, new, selected, "none")

\* generate_alternative_solution's result from the two llm answers
AlternativeResponse(v, alt_solution, tests) ==
    IF v = "tabular"
    THEN Resp({"AlternativeSolution", "TestCases"}, << >>, << >>, << >>,
              IF tests.kind = "invalid" THEN NoCases ELSE tests,
              Strip(alt_solution), << >>)
    ELSE Resp({}, << >>, << >>, << >>, NoCases, << >>,
              << "**Alternative Solution (Generated):**" >> \o Strip(alt_solution)
                \o << "**Test Cases for Alternative Solution:**" >>
                \o StripResponse(tests))

\* a loop body whose else branch does not return: under it the workflow
\* would be invoked again until max_iterations
LoopStep_Continue(r) == IF r < 3 THEN "alternative" ELSE "continue"

\* what the loop body of get_solution_autonomously does with a rating:
\* both branches of its conditional return, so "continue" (iteration += 1)
\* is never chosen
LoopStep(r) == IF r < 3 THEN "alternative" ELSE "return"

(***************************************************************************)
(* The state machine.                                                      *)
(***************************************************************************)
Init ==
    /\ variant \in Variants
    /\ docs \in DocSets
    /\ csv_file \in InitialFiles
    /\ test_cases_df = StartupTable(variant, csv_file)
    /\ pc = "idle"
    /\ input = << >>
    /\ context = << >>
    /\ response = NoResponse
    /\ rating = 0
    /\ result = NoResponse
    /\ outcome = "none"
    /\ llm_calls = << >>
    /\ iteration = 0
    /\ workflow_runs = 0
    /\ alt_runs = 0
    /\ gate = "none"
    /\ tcm = "none"
    /\ csv_test_cases = << >>
    /\ new_cases = << >>
    /\ llm_answer = NoAnswer(variant)
    /\ selected_cases = << >>
    /\ failure = "none"
    /\ persisted = {}
    /\ GateIdle
    /\ RaceIdle
    /\ ui = "none"

Between == pc \in {"idle", "done"}

\* get_solution(error_message) is called: get_solution_autonomously starts
\* and enters its loop (iteration = 0 < max_iterations)
StartRequest(q) ==
    /\ input' = q
    /\ pc' = "retrieve"
    /\ context' = << >>
    /\ response' = NoResponse
    /\ rating' = 0
    /\ result' = NoResponse
    /\ outcome' = "none"
    /\ llm_calls' = << >>
    /\ iteration' = 0
    /\ workflow_runs' = 0
    /\ alt_runs' = 0
    /\ gate' = "none"
    /\ tcm' = "none"
    /\ csv_test_cases' = << >>
    /\ new_cases' = << >>
    /\ llm_answer' = NoAnswer(variant)
    /\ selected_cases' = << >>
    /\ failure' = "none"
    /\ UNCHANGED gate_vars
    /\ UNCHANGED race_vars
    /\ UNCHANGED << variant, docs, csv_file, test_cases_df, persisted >>

\* get_solution(error_message) called by a program that imports it (or by
\* __main__ / main()): no test of the text precedes the call
GetSolution ==
    /\ Between
    /\ Len(test_cases_df) <= MaxRows
    /\ \E q \in Queries : StartRequest(q)
    /\ ui' = "none"

\* the button "Get RCA Report" of the UI: a text that is empty after strip()
\* gets st.error and no call; any other text is given to get_solution
UiSubmit ==
    /\ Between
    /\ variant \in {"agent", "tabular"}
    /\ Len(test_cases_df) <= MaxRows
    /\ \E q \in Queries :
         IF Strip(q) = << >>
         THEN /\ ui' = "error"
              /\ UNCHANGED << variant, docs, csv_file, test_cases_df, pc, input,
                              context, response, rating, result, outcome, llm_calls,
                              iteration, workflow_runs, alt_runs, gate, tcm,
                              csv_test_cases, new_cases, llm_answer, selected_cases,
                              failure, persisted >>
              /\ UNCHANGED gate_vars
              /\ UNCHANGED race_vars
         ELSE /\ StartRequest(q)
              /\ ui' = "report"

\* agent.invoke({"input": error_message.strip()}), node "retrieve":
\* retriever.invoke returns the nearest document (none from an empty store)
Retrieve ==
    /\ pc = "retrieve"
    /\ workflow_runs' = workflow_runs + 1
    /\ IF docs = {} THEN context' = << >>
       ELSE \E d \in Nearest(docs, Strip(input)) : context' = << d >>
    /\ pc' = "validate"
    /\ UNCHANGED gate_vars
    /\ UNCHANGED race_vars
    /\ UNCHANGED ui
    /\ UNCHANGED << variant, docs, csv_file, test_cases_df, input, response, rating,
                    result, outcome, llm_calls, iteration, alt_runs, gate, tcm,
                    csv_test_cases, new_cases, llm_answer, selected_cases, failure, persisted >>

\* retriever.invoke raises (the embedding of the query or the index fails):
\* the node has no handler, so the exception leaves get_solution
RetrieveRaises ==
    /\ pc = "retrieve"
    /\ workflow_runs' = workflow_runs + 1
    /\ outcome' = "raised"
    /\ failure' = "retrieval"
    /\ pc' = "done"
    /\ UNCHANGED gate_vars
    /\ UNCHANGED race_vars
    /\ UNCHANGED ui
    /\ UNCHANGED << variant, docs, csv_file, test_cases_df, input, context, response,
                    rating, result, llm_calls, iteration, alt_runs, gate, tcm,
                    csv_test_cases, new_cases, llm_answer, selected_cases, persisted >>

\* node "validate_or_generate_test_cases", then END
ValidateOrGenerate ==
    /\ pc = "validate"
    /\ \E embed_ok \in BOOLEAN, expl_ok \in BOOLEAN, gen_ok \in BOOLEAN,
          expl \in Explanations, gen \in GenResponses(variant) :
         \E out \in { validate_or_generate_test_cases(
                        variant, Strip(input), context, test_cases_df, csv_file,
                        [embed_ok |-> embed_ok, expl_ok |-> expl_ok, expl |-> expl,
                         gen_ok |-> gen_ok, gen |-> gen]) } :
            /\ response' = out.response
            /\ test_cases_df' = out.df
            /\ csv_file' = out.file
            /\ llm_calls' = llm_calls \o out.calls
            /\ gate' = out.gate
            /\ tcm' = out.tcm
            /\ csv_test_cases' = out.csv_test_cases
            /\ new_cases' = out.new_cases
            /\ llm_answer' = IF out.tcm \in {"additional", "full"} /\ gen_ok
                            THEN gen ELSE NoAnswer(variant)
            /\ selected_cases' = out.selected_cases
            /\ failure' = out.failure
            /\ persisted' = persisted \cup
                 Range(SubSeq(out.df, Len(test_cases_df) + 1, Len(out.df)))
    /\ pc' = "evaluate"
    /\ UNCHANGED gate_vars
    /\ UNCHANGED race_vars
    /\ UNCHANGED ui
    /\ UNCHANGED << variant, docs, input, context, rating, result, outcome,
                    iteration, workflow_runs, alt_runs >>

\* rating = auto_evaluate_solution(response) and the conditional after it
Evaluate ==
    /\ pc = "evaluate"
    /\ rating' = auto_evaluate_solution(variant, response)
    /\ LET step == LoopStep(rating')
       IN CASE step = "alternative" ->
                 /\ pc' = "alternative"
                 /\ UNCHANGED << result, outcome, iteration >>
            [] step = "return" ->
                 /\ pc' = "done"
                 /\ result' = response
                 /\ outcome' = "returned"
                 /\ UNCHANGED iteration
            [] OTHER ->
                 \* iteration += 1, then the loop test
                 /\ iteration' = iteration + 1
                 /\ IF iteration + 1 < max_iterations
                    THEN /\ pc' = "retrieve"
                         /\ UNCHANGED << result, outcome >>
                    ELSE /\ pc' = "done"
                         /\ result' = response
                         /\ outcome' = "returned"
    /\ UNCHANGED gate_vars
    /\ UNCHANGED race_vars
    /\ UNCHANGED ui
    /\ UNCHANGED << variant, docs, csv_file, test_cases_df, input, context, response,
                    llm_calls, workflow_runs, alt_runs, gate, tcm, csv_test_cases,
                    new_cases, llm_answer, selected_cases, failure, persisted >>

\* generate_alternative_solution(error_message): two llm calls, no handler
GenerateAlternative ==
    /\ pc = "alternative"
    /\ alt_runs' = alt_runs + 1
    /\ \E sol_ok \in BOOLEAN, tests_ok \in BOOLEAN,
          sol \in AltSolutions, tests \in AltTestResponses(variant) :
         IF ~sol_ok
         THEN /\ llm_calls' = llm_calls \o << Prompt("alt_solution", 0) >>
              /\ outcome' = "raised"
              /\ failure' = "alt_solution"
              /\ UNCHANGED result
         ELSE IF ~tests_ok
         THEN /\ llm_calls' = llm_calls \o << Prompt("alt_solution", 0),
                                              Prompt("alt_tests", 4) >>
              /\ outcome' = "raised"
              /\ failure' = "alt_tests"
              /\ UNCHANGED result
         ELSE /\ llm_calls' = llm_calls \o << Prompt("alt_solution", 0),
                                              Prompt("alt_tests", 4) >>
              /\ outcome' = "returned"
              /\ result' = AlternativeResponse(variant, sol, tests)
              /\ UNCHANGED failure
    /\ pc' = "done"
    /\ UNCHANGED gate_vars
    /\ UNCHANGED race_vars
    /\ UNCHANGED ui
    /\ UNCHANGED << variant, docs, csv_file, test_cases_df, input, context, response,
                    rating, iteration, workflow_runs, gate, tcm, csv_test_cases,
                    new_cases, llm_answer, selected_cases, persisted >>

\* the process ends and the program is started again: the module-level code
\* loads the table anew
Restart ==
    /\ Between
    /\ test_cases_df' = StartupTable(variant, csv_file)
    /\ pc' = "idle"
    /\ input' = << >>
    /\ context' = << >>
    /\ response' = NoResponse
    /\ rating' = 0
    /\ result' = NoResponse
    /\ outcome' = "none"
    /\ llm_calls' = << >>
    /\ iteration' = 0
    /\ workflow_runs' = 0
    /\ alt_runs' = 0
    /\ gate' = "none"
    /\ tcm' = "none"
    /\ csv_test_cases' = << >>
    /\ new_cases' = << >>
    /\ llm_answer' = NoAnswer(variant)
    /\ selected_cases' = << >>
    /\ failure' = "none"
    /\ UNCHANGED gate_vars
    /\ UNCHANGED race_vars
    /\ ui' = "none"
    /\ UNCHANGED << variant, docs, csv_file, persisted >>

Next ==
    \/ GetSolution
    \/ UiSubmit
    \/ Retrieve
    \/ RetrieveRaises
    \/ ValidateOrGenerate
    \/ Evaluate
    \/ GenerateAlternative
    \/ Restart

Spec == Init /\ [][Next]_vars

(***************************************************************************)
(* Properties.                                                             *)
(***************************************************************************)
\* the workflow of the current request has run to its END
WorkflowDone == pc \in {"evaluate", "alternative"} \/ (pc = "done" /\ rating # 0)

\* the closed-form similarity of the query and the retrieved document is
\* below the threshold
BelowThreshold ==
    /\ context # << >>
    /\ ~ClosedFormGE(get_embedding(Strip(input)),
                     get_embedding(context[1].page_content),
                     ThresholdNum, ThresholdDen)

\* retrieval returned no document, or the similarity was recomputed and is
\* below the threshold
NoMatch == WorkflowDone /\ (context = << >> \/ (gate # "raised" /\ BelowThreshold))

TestCasePrompts(calls) ==
    SelectSeq(calls, LAMBDA c : c.kind \in {"additional", "full"})
AltPrompts == << Prompt("alt_solution", 0), Prompt("alt_tests", 4) >>

\* the result is what generate_alternative_solution returns
IsAlternative(res) ==
    IF JsonMode THEN "AlternativeSolution" \in res.keys
    ELSE res.text # << >> /\ res.text[1] = "**Alternative Solution (Generated):**"

\* C1 (as stated): when retrieval returns no document or the nearest
\* neighbour's recomputed similarity is below 0.6, get_solution returns the
\* not-found indicator and the request makes no generation call.
C1_Original ==
    (pc = "done" /\ NoMatch)
      => /\ outcome = "returned"
         /\ result = NotFound(variant)
         /\ llm_calls = << >>

\* C1 (amended): in that case the workflow's response is the not-found
\* indicator and the workflow makes no generation call; get_solution rates it
\* 1 and runs generate_alternative_solution, whose two generation calls are
\* the only ones of the request, and returns its result, not the not-found
\* indicator (or lets the exception of a failed call through).
C1_NotFoundGoesToAlternative ==
    NoMatch =>
      /\ response = NotFound(variant)
      /\ pc \in {"evaluate", "alternative"} => llm_calls = << >>
      /\ pc \in {"alternative", "done"} => rating = 1
      /\ pc = "done" =>
           /\ alt_runs = 1
           /\ TestCasePrompts(llm_calls) = << >>
           /\ outcome = "returned" =>
                /\ IsAlternative(result)
                /\ result # NotFound(variant)
                /\ llm_calls = AltPrompts
           /\ outcome = "raised" => failure \in {"alt_solution", "alt_tests"}

\* a request whose nearest neighbour was below the threshold has returned
C1_Witness ==
    /\ pc = "done" /\ NoMatch /\ gate = "fail"
    /\ outcome = "returned" /\ IsAlternative(result)

\* the Solution section / field of a result holds exactly `sol`
HasSolution(res, sol) ==
    IF JsonMode THEN "Solution" \in res.keys /\ res.Solution = sol
    ELSE \E i \in DOMAIN res.text :
           /\ res.text[i] = "**Solution:**"
           /\ i + Len(sol) + 1 <= Len(res.text)
           /\ SubSeq(res.text, i + 1, i + Len(sol)) = sol
           /\ res.text[i + Len(sol) + 1] = "**Explanation:**"

\* the retrieved document is a nearest neighbour of the query and their
\* closed-form similarity reaches the threshold
NearestMatch ==
    /\ WorkflowDone
    /\ context # << >>
    /\ context[1] \in Nearest(docs, Strip(input))
    /\ ~BelowThreshold

\* C2 (as stated): when D is the nearest neighbour of Q with similarity >= 0.6
\* and every external call returns, the result of get_solution(Q) holds D's
\* solution verbatim in its Solution field, whatever the generator returned
\* and whatever the table holds.
C2_Original ==
    (pc = "done" /\ NearestMatch /\ failure = "none" /\ outcome = "returned")
      => HasSolution(result, context[1].solution)

NoDuplicates(rows) ==
    \A i, j \in DOMAIN rows : i # j => rows[i] # rows[j]

\* C3 (as stated): the stored table (in memory and in the file) never holds
\* two rows that agree on all six fields.
C3_Original == NoDuplicates(test_cases_df) /\ NoDuplicates(csv_file.rows)

\* a step of the node in which the Test Case Manager ran: the gate passed
\* and the explanation call returned
ManagerRan ==
    /\ pc = "validate" /\ pc' = "evaluate"
    /\ gate' = "pass" /\ failure' # "explanation"

\* the valid stored cases of the matched module before the step
StoredValid == get_csv_test_cases(test_cases_df, context[1].module)

\* the test cases the response of the node lists
ListedCases(resp, cases) ==
    IF JsonMode THEN resp.TestCases = Json("array", cases)
    ELSE \E i \in DOMAIN resp.text :
           /\ resp.text[i] = "**Test Cases:**"
           /\ SubSeq(resp.text, i + 1, Len(resp.text))
                = Flatten([k \in DOMAIN cases |-> format_tc(cases[k])])

HasScenario(c) == "Test_Scenario" \in DOMAIN c /\ Strip(c.Test_Scenario) # << >>

\* C5 (as stated): with 0 < n < 4 valid stored cases exactly one test-case
\* prompt is sent and it asks for 4 - n cases; when the node returns a set,
\* its size is n + k, k the number of generated cases with a non-empty
\* scenario.
C5_Original ==
    [][ (ManagerRan /\ Len(StoredValid) > 0
           /\ Len(StoredValid) < REQUIRED_TEST_CASE_COUNT)
          => /\ TestCasePrompts(llm_calls')
                  = << Prompt("additional",
                              REQUIRED_TEST_CASE_COUNT - Len(StoredValid)) >>
             /\ failure' = "none" =>
                  Len(selected_cases')
                    = Len(StoredValid) + Len(SelectSeq(new_cases', HasScenario)) ]_vars

\* C6 (as stated): no request ends with an exception leaving get_solution.
C6_Original == outcome # "raised"

\* C7 (as stated): every row of the persisted file is still in the file
\* after any step (the table having been read from the file at start-up).
C7_Original ==
    [][ csv_file.exists =>
          /\ csv_file'.exists
          /\ \A i \in DOMAIN csv_file.rows :
               csv_file.rows[i] \in Range(csv_file'.rows) ]_vars

\* C8 (as stated): when every case the generator gives in a request was
\* persisted by an earlier call, the call appends no row and leaves the
\* stored table as it was.
C8_Original ==
    [][ (ManagerRan /\ new_cases' # << >> /\ Range(new_cases') \subseteq persisted)
          => /\ Len(test_cases_df') = Len(test_cases_df)
             /\ csv_file'.rows = csv_file.rows ]_vars

\* The steps of a request follow one another without waiting for anything
\* but the external calls, which return or raise.
FairSpec ==
    /\ Spec
    /\ WF_vars(Retrieve \/ RetrieveRaises)
    /\ WF_vars(ValidateOrGenerate)
    /\ WF_vars(Evaluate)
    /\ WF_vars(GenerateAlternative)

InRequest == pc \in {"retrieve", "validate", "evaluate", "alternative"}

\* the order of the positions of one pass through the loop body
Rank(p) ==
    CASE p = "retrieve" -> 1
      [] p = "validate" -> 2
      [] p = "evaluate" -> 3
      [] p = "alternative" -> 4
      [] OTHER -> 5

\* C9: every call of get_solution_autonomously ends (returns or raises)
\* after exactly one workflow invocation and at most one call of
\* generate_alternative_solution; the loop body is entered once only, so
\* iteration stays 0 and no position of the request is visited twice.
C9_SingleShot ==
    /\ [](/\ workflow_runs <= 1
          /\ alt_runs <= 1
          /\ iteration = 0
          /\ (pc \in {"validate", "evaluate", "alternative"} \/ outcome # "none")
               => workflow_runs = 1)
    /\ [][InRequest => Rank(pc') > Rank(pc)]_vars
    /\ (InRequest ~> (pc = "done" /\ outcome # "none"))

\* a request that took the alternative path has returned
C9_Witness ==
    /\ pc = "done" /\ outcome = "returned"
    /\ workflow_runs = 1 /\ alt_runs = 1 /\ iteration = 0

\* the response lists at least one test case
CarriesTestCases(resp) ==
    IF JsonMode
    THEN "TestCases" \in resp.keys /\ resp.TestCases.kind = "array"
         /\ resp.TestCases.items # << >>
    ELSE \E i \in DOMAIN resp.text :
           resp.text[i] = "**Test Cases:**" /\ i < Len(resp.text)

\* C10 (as stated): the score is 5 for a response that carries test cases,
\* 1 for the not-found response and 3 for every other response, in both
\* output modes.
C10_Original ==
    rating # 0 =>
      rating = IF CarriesTestCases(response) THEN 5
               ELSE IF response = NotFound(variant) THEN 1
               ELSE 3

(***************************************************************************)
(* The Similarity Gate called directly, on any pair of non-zero vectors.   *)
(***************************************************************************)
\* the non-zero vectors with integer coordinates of absolute value <= MaxCoord
Vectors ==
    { Vec(x, y, 1) : x \in -MaxCoord..MaxCoord, y \in -MaxCoord..MaxCoord }
      \ { Vec(0, 0, 1) }

\* the default threshold of is_similar and the one of its call site
Thresholds == { [num |-> 1, den |-> 2], [num |-> ThresholdNum, den |-> ThresholdDen] }

\* one call: sim = cosine_similarity(query_emb, doc_emb); return sim >= threshold
IsSimilarCall ==
    /\ sim_ok = "none"
    /\ \E a \in Vectors, b \in Vectors, t \in Thresholds :
         /\ query_emb' = a
         /\ doc_emb' = b
         /\ threshold' = t
         /\ sim_ok' = IF cosine_similarity_GE(variant, a, b, t.num, t.den)
                      THEN "accept" ELSE "reject"
    /\ UNCHANGED main_vars
    /\ UNCHANGED race_vars

GateNext == IsSimilarCall

\* the gate does not read the tables: they are left empty here
GateInit == Init /\ docs = {} /\ csv_file = NoFile

GateSpec == GateInit /\ [][GateNext]_vars

\* C11 (as stated): for non-zero vectors the gate accepts exactly when
\* dot(a,b) / (norm(a) * norm(b)) >= threshold, in every variant.
C11_Original ==
    sim_ok # "none" =>
      (sim_ok = "accept" <=> ClosedFormGE(query_emb, doc_emb, threshold.num, threshold.den))

\* the workflow node runs in this step
NodeRuns == pc = "validate" /\ pc' = "evaluate"

\* the response has a Solution section / field
AttributesSolution(resp) ==
    IF JsonMode THEN "Solution" \in resp.keys
    ELSE "**Solution:**" \in Range(resp.text)

\* cosine_similarity of the embeddings of the query and of the retrieved
\* document, as the variant computes it, is >= 0.6
GateAccepts ==
    /\ context # << >>
    /\ cosine_similarity_GE(variant, get_embedding(Strip(input)),
                            get_embedding(context[1].page_content),
                            ThresholdNum, ThresholdDen)

\* C12: a run of the node attributes a stored solution only if a document
\* was retrieved and the gate with threshold 0.6 accepted it; when nothing
\* was retrieved or the gate returned false, the response is the not-found
\* message, the node makes no generation call and leaves the in-memory table
\* and the file as they were.
C12_GatedAttribution ==
    [][ NodeRuns =>
          /\ AttributesSolution(response') => (gate' = "pass" /\ GateAccepts)
          /\ (context = << >> \/ gate' = "fail") =>
               /\ response' = NotFound(variant)
               /\ ~AttributesSolution(response')
               /\ llm_calls' = llm_calls
               /\ test_cases_df' = test_cases_df
               /\ csv_file' = csv_file
          /\ (gate' = "fail") <=> (context # << >> /\ failure' # "embedding"
                                    /\ ~GateAccepts) ]_vars

\* the node has rejected a retrieved document whose similarity is between
\* the default threshold and 0.6
C12_Witness ==
    /\ pc = "evaluate" /\ gate = "fail" /\ context # << >>
    /\ input = << "fan" >>
    /\ response = NotFound(variant)
    /\ ~GateAccepts
    /\ cosine_similarity_GE(variant, get_embedding(Strip(input)),
                            get_embedding(context[1].page_content), 1, 2)

\* the generator's answer holds nothing that parses into test cases: a text
\* without any field label, or (JSON variant) a text json.loads rejects
Unparsable(answer) ==
    IF JsonMode THEN answer.kind = "invalid"
    ELSE answer # << >> /\ Range(answer) \cap Labels = {}

\* C13, the node: after the gate has passed, an answer that cannot be
\* parsed gives an empty new-case list, no exception and no write, and the
\* response holds the matched solution and the valid stored cases.
C13_NodeDegrades ==
    [][ (NodeRuns /\ gate' = "pass" /\ Unparsable(llm_answer'))
          => /\ new_cases' = << >>
             /\ failure' = "none"
             /\ test_cases_df' = test_cases_df
             /\ csv_file' = csv_file
             /\ HasSolution(response', context[1].solution)
             /\ ListedCases(response', StoredValid) ]_vars

\* C13 (as stated): the node degrades as above, and the request completes
\* with the matched defect's Solution and the valid stored cases.
C13_Original ==
    /\ C13_NodeDegrades
    /\ [](( pc = "done" /\ gate = "pass" /\ Unparsable(llm_answer))
            => /\ outcome = "returned"
               /\ HasSolution(result, context[1].solution)
               /\ ListedCases(result, csv_test_cases))

\* every test case the generator's answer holds, as parsed, before any
\* filtering: the parsed raw cases under the matched module (text variants),
\* the elements of the JSON array (JSON variant)
AnswerCases(module, answer) ==
    IF JsonMode
    THEN IF answer.kind = "array" THEN answer.items ELSE << >>
    ELSE LET raw == RawCases(StripResponse(answer))
             parsed == [i \in DOMAIN raw |-> parse_test_case(raw[i])]
         IN [i \in DOMAIN parsed |->
               TC(module, parsed[i].Test_Scenario, parsed[i].Test_Steps,
                  parsed[i].Pre_Requisite, parsed[i].Pass_Fail_Criteria,
                  parsed[i].Expected_Result)]

\* the rows the step appended to the in-memory table
Appended == Range(SubSeq(test_cases_df', Len(test_cases_df) + 1, Len(test_cases_df')))

\* C14 (as stated): of the cases in the generator's answer, exactly those
\* with a non-empty Test_Scenario are returned (after the stored valid
\* cases) and are in the table and the file afterwards; a case with an empty
\* scenario is neither returned nor appended.  Both output variants.
C14_Original ==
    [][ (ManagerRan /\ llm_answer' # NoAnswer(variant))
          => LET all == AnswerCases(context[1].module, llm_answer')
                 wanted == SelectSeq(all, HasScenario)
             IN /\ selected_cases' = StoredValid \o wanted
                /\ new_cases' = wanted
                /\ Range(wanted) \subseteq Range(test_cases_df')
                /\ wanted # << >> => Range(wanted) \subseteq Range(csv_file'.rows)
                /\ \A c \in Appended : HasScenario(c) ]_vars

\* the cell holds a value that is not empty after trimming
NonEmptyCell(v) == v # NaN /\ Strip(v) # << >>

\* the rows of the module whose five non-module fields are all non-empty
ValidRowsOf(df, module) ==
    SelectSeq(df, LAMBDA row :
        /\ row.Module = module
        /\ \A f \in Range(RequiredFields) : NonEmptyCell(row[f]))

\* C15 (as stated): for every module, get_csv_test_cases returns exactly the
\* stored rows of the module whose five non-module fields are all non-empty
\* after trimming, whether the rows were appended in this process or read
\* from the file at start-up.
C15_Original ==
    \A module \in {Storage, Network} :
      get_csv_test_cases(test_cases_df, module) = ValidRowsOf(test_cases_df, module)

\* the workflow has reached END: the node has put a response in the state
WorkflowEnded == pc = "evaluate" /\ response # NoResponse

\* C16 (as stated): in every workflow invocation retrieve runs once and
\* completes (an empty result included) before validate_or_generate starts,
\* validate_or_generate runs once, and the workflow then reaches END; no
\* step is repeated or skipped.
C16_Original ==
    /\ [][ /\ pc = "retrieve" => (pc' = "validate" /\ outcome' = "none")
           /\ pc = "validate" => (pc' = "evaluate" /\ response' # NoResponse)
           /\ pc' = "validate" => pc = "retrieve"
           /\ pc' = "retrieve" => Between ]_vars
    /\ (pc = "retrieve" ~> WorkflowEnded)

\* the row a generated case makes under the module
UnderModule(module, c) ==
    TC(module, c.Test_Scenario, c.Test_Steps, c.Pre_Requisite,
       c.Pass_Fail_Criteria, c.Expected_Result)

\* the cases of the generator's answer that have a scenario
NewCasesOf(module, answer) == SelectSeq(AnswerCases(module, answer), HasScenario)

\* C17 (as stated): when the gate has passed, the module has n < 4 valid
\* stored cases S and the generator's answer holds at least one parsable
\* case, every new case is in the table under the matched module after the
\* node has run and the response lists S followed by the new cases; the
\* result of the request lists them too.  Both output variants.
C17_Original ==
    /\ [][ (/\ ManagerRan
            /\ Len(StoredValid) < REQUIRED_TEST_CASE_COUNT
            /\ llm_answer' # NoAnswer(variant)
            /\ NewCasesOf(context[1].module, llm_answer') # << >>)
           => LET new == NewCasesOf(context[1].module, llm_answer')
              IN /\ \A c \in Range(new) :
                      UnderModule(context[1].module, c) \in Range(test_cases_df')
                 /\ ListedCases(response', StoredValid \o new) ]_vars
    /\ [](( /\ pc = "done" /\ gate = "pass" /\ llm_answer # NoAnswer(variant)
            /\ NewCasesOf(context[1].module, llm_answer) # << >>)
           => /\ outcome = "returned"
              /\ ListedCases(result, csv_test_cases
                                       \o NewCasesOf(context[1].module, llm_answer)))

\* the number of test cases the result of the alternative path carries
AltCaseCount(res) ==
    IF JsonMode THEN Len(res.TestCases.items)
    ELSE Cardinality({ i \in DOMAIN res.text : res.text[i] = "Test_Scenario:" })

\* C18 (as stated): whenever the workflow's response scores below 3,
\* get_solution returns, in its place, a result with an alternative solution
\* and exactly 4 test cases, made by the two prompts of the alternative path
\* only (no second retrieval, no stored test case read).
C18_Original ==
    (pc = "done" /\ rating # 0 /\ rating < 3)
      => /\ outcome = "returned"
         /\ IsAlternative(result)
         /\ result # response
         /\ AltCaseCount(result) = REQUIRED_TEST_CASE_COUNT
         /\ workflow_runs = 1
         /\ SubSeq(llm_calls, Len(llm_calls) - 1, Len(llm_calls)) = AltPrompts

(***************************************************************************)
(* save_new_test_cases called from several threads of one process (the UI  *)
(* runs every session's get_solution in its own thread; the module agent   *)
(* and its global test_cases_df are shared).  Each thread reads the global *)
(* for the duplicate test, reads it again for pd.concat, assigns the       *)
(* result to the global, and writes the global to the file.                *)
(***************************************************************************)
\* the one-case lists the threads save
RaceCases ==
    { << TC(Storage, << "scA" >>, << "steps" >>, << "pre" >>, << "crit" >>, << "exp" >>) >>,
      << TC(Storage, << "scB" >>, << "steps" >>, << "pre" >>, << "crit" >>, << "exp" >>) >> }

\* save_new_test_cases(new_cases) is entered
SaveCall(t) ==
    /\ tpc[t] = "idle"
    /\ Len(test_cases_df) <= MaxRows
    /\ \E cases \in RaceCases : thread_cases' = [thread_cases EXCEPT ![t] = cases]
    /\ tpc' = [tpc EXCEPT ![t] = "check"]
    /\ overlapped' = (overlapped \/ \E u \in Threads \ {t} : tpc[u] # "idle")
    /\ UNCHANGED << rows_add, concat_read >>
    /\ UNCHANGED << main_vars, gate_vars >>

\* the loop over new_cases: the duplicate test against the global table
SaveCheck(t) ==
    /\ tpc[t] = "check"
    /\ LET add == rows_to_add(test_cases_df, thread_cases[t])
       IN /\ rows_add' = [rows_add EXCEPT ![t] = add]
          /\ tpc' = [tpc EXCEPT ![t] = IF add = << >> THEN "idle" ELSE "concat"]
    /\ UNCHANGED << thread_cases, concat_read, overlapped >>
    /\ UNCHANGED << main_vars, gate_vars >>

\* pd.concat([test_cases_df, new_df]) reads the global table
SaveConcat(t) ==
    /\ tpc[t] = "concat"
    /\ concat_read' = [concat_read EXCEPT ![t] = test_cases_df]
    /\ tpc' = [tpc EXCEPT ![t] = "assign"]
    /\ UNCHANGED << thread_cases, rows_add, overlapped >>
    /\ UNCHANGED << main_vars, gate_vars >>

\* test_cases_df = <the concatenation>
SaveAssign(t) ==
    /\ tpc[t] = "assign"
    /\ test_cases_df' = concat_read[t] \o rows_add[t]
    /\ persisted' = persisted \cup Range(rows_add[t])
    /\ tpc' = [tpc EXCEPT ![t] = "write"]
    /\ UNCHANGED << thread_cases, rows_add, concat_read, overlapped >>
    /\ UNCHANGED << variant, docs, csv_file, pc, input, context, response, rating,
                    result, outcome, llm_calls, iteration, workflow_runs, alt_runs,
                    gate, tcm, csv_test_cases, new_cases, llm_answer, selected_cases,
                    failure, ui >>
    /\ UNCHANGED gate_vars

\* test_cases_df.to_csv("./content/test_cases.csv") writes the global table
SaveWrite(t) ==
    /\ tpc[t] = "write"
    /\ csv_file' = to_csv(test_cases_df)
    /\ tpc' = [tpc EXCEPT ![t] = "idle"]
    /\ UNCHANGED << thread_cases, rows_add, concat_read, overlapped >>
    /\ UNCHANGED << variant, docs, test_cases_df, pc, input, context, response, rating,
                    result, outcome, llm_calls, iteration, workflow_runs, alt_runs,
                    gate, tcm, csv_test_cases, new_cases, llm_answer, selected_cases,
                    failure, persisted, ui >>
    /\ UNCHANGED gate_vars

RaceNext ==
    \E t \in Threads :
      SaveCall(t) \/ SaveCheck(t) \/ SaveConcat(t) \/ SaveAssign(t) \/ SaveWrite(t)

\* the variants that have a UI, started with a defect table
RaceInit == Init /\ variant \in {"agent", "tabular"} /\ docs # {}

RaceSpec == RaceInit /\ [][RaceNext]_vars

AllIdle == \A t \in Threads : tpc[t] = "idle"

\* a row some call appended is no longer in the table, or not in the file
\* although every write has been done
RowLost ==
    \/ \E r \in persisted : r \notin Range(test_cases_df)
    \/ AllIdle /\ \E r \in persisted : r \notin Range(csv_file.rows)

\* C19: calls of save_new_test_cases that do not overlap keep the table free
\* of identical rows and keep every appended row; with two calls that
\* overlap, a table with two identical rows (both passed the duplicate test
\* before either appended) and a table that lost an appended row (one
\* write-back over the other's) are reached: see C19_Witness.
C19_RaceNeedsOverlap ==
    (NoDuplicates(test_cases_df) /\ NoDuplicates(csv_file.rows) /\ ~RowLost)
      \/ overlapped

\* two overlapping calls have finished and the table and the file hold the
\* same row twice
C19_Witness ==
    /\ AllIdle /\ overlapped
    /\ ~NoDuplicates(test_cases_df)
    /\ ~NoDuplicates(csv_file.rows)

\* a step of a request (not the start of the program)
RequestStep == pc \in {"retrieve", "validate", "evaluate", "alternative"}

\* C20 (as stated): a step of a request changes the in-memory table or the
\* file only when the Test Case Manager ran with n < 4 valid stored cases
\* and the generator's answer held at least one valid new case; a request
\* that is not-found, finds n >= 4, or parses no valid case leaves both as
\* they were.
C20_Original ==
    [][ (RequestStep /\ (test_cases_df' # test_cases_df \/ csv_file' # csv_file))
          => /\ ManagerRan
             /\ Len(StoredValid) < REQUIRED_TEST_CASE_COUNT
             /\ llm_answer' # NoAnswer(variant)
             /\ NewCasesOf(context[1].module, llm_answer') # << >> ]_vars

\* C21 (as stated): for a query that is empty after trimming, whether it
\* came through the UI or through get_solution directly, no retrieve step,
\* no embedding call of the gate and no generation call takes place.
C21_Original ==
    Strip(input) = << >>
      => /\ workflow_runs = 0
         /\ gate = "none"
         /\ llm_calls = << >>

\* the prompts that ask the generator for test cases
TestCaseCalls(calls) ==
    SelectSeq(calls, LAMBDA c : c.kind \in {"additional", "full", "alt_tests"})

\* C22, the table: within one process no step removes or changes a row of
\* the in-memory table, so the number of valid stored cases of a module
\* never goes down, and a request that finds n >= 4 of them sends no
\* test-case prompt from the Test Case Manager.
C22_TableStable ==
    /\ [][ ~Restart =>
             /\ Len(test_cases_df') >= Len(test_cases_df)
             /\ SubSeq(test_cases_df', 1, Len(test_cases_df)) = test_cases_df
             /\ \A module \in {Storage, Network} :
                  Len(get_csv_test_cases(test_cases_df', module))
                    >= Len(get_csv_test_cases(test_cases_df, module)) ]_vars
    /\ []((gate = "pass" /\ Len(csv_test_cases) >= REQUIRED_TEST_CASE_COUNT)
            => TestCasePrompts(llm_calls) = << >>)

\* C22 (as stated): the table is stable as above, and a request matched to
\* a module that has at least 4 valid stored cases makes no test-case
\* generation call at all.
C22_Original ==
    /\ C22_TableStable
    /\ []((gate = "pass" /\ Len(csv_test_cases) >= REQUIRED_TEST_CASE_COUNT)
            => TestCaseCalls(llm_calls) = << >>)

\* C23 (as stated): a workflow run that writes test cases to the table or
\* the file is not one whose response the retry controller discards (score
\* below 3), and the alternative path writes to neither.
C23_Original ==
    [][ /\ (NodeRuns /\ (test_cases_df' # test_cases_df \/ csv_file' # csv_file))
             => auto_evaluate_solution(variant, response') >= 3
        /\ pc = "alternative"
             => (test_cases_df' = test_cases_df /\ csv_file' = csv_file) ]_vars

=============================================================================
